---- MODULE Spec2Model ----
(***************************************************************************)
(* Model of addon/mixins/copyable.js (ember-data-copyable): the copy()     *)
(* entry point, the COPY_TASK_RUNNER task with its drop policy and its     *)
(* rollback, and the recursive COPY_TASK.                                  *)
(*                                                                         *)
(* Tasks are ember-concurrency tasks: perform() runs the generator         *)
(* synchronously up to its first yield, a yield suspends the task until    *)
(* the awaited promise or child task settles, all() rejects as soon as one *)
(* child rejects and then cancels the other children, and cancelling a     *)
(* task cancels the child it is waiting for.                               *)
(***************************************************************************)
EXTENDS Integers, Sequences, FiniteSets, TLC

\* ---------------------------------------------------------------- bounds
\* Number of copy() calls issued in one behaviour.
MaxCalls == 2

\* Number of COPY_TASK instances performed for one copy() call.
MaxFrames == 8

\* ------------------------------------------------------- the source graph
Nil == "nil"

\* The records of the store before any copy: a post with two comments that
\* share one author (and point back to the post), a user that is its own
\* boss, and a folder whose related records are not copyable; and a thread
\* with two items that reach one writer, the first as its owner and the
\* second as its editor, the writer having a mentor.
Records == {"A", "C1", "C2", "U", "P", "N", "T", "I1", "I2", "W", "M"}

\* [IS_COPYABLE]: true on every model that uses the mixin.
IS_COPYABLE(r) == r # "N"

\* eachAttribute: name, declared type and current value of each attribute.
\* A value is <<owner, identity, data>>: owner 0 is the source's own value
\* and a primitive has no identity.
Attributes(r) ==
    CASE r = "A"  -> << [name |-> "title", type |-> "string", value |-> <<0, "", "x">>] >>
      [] r = "C2" -> << [name |-> "sent", type |-> "date", value |-> <<0, "d1", "today">>] >>
      [] r = "U"  -> << [name |-> "prefs", type |-> "object", value |-> <<0, "o1", "dark">>] >>
      [] r = "P"  -> << [name |-> "part", type |-> "fragment", value |-> <<0, "f1", "body">>] >>
      [] r = "T"  -> << [name |-> "title", type |-> "string", value |-> <<0, "", "x">>],
                        [name |-> "tags", type |-> "object", value |-> <<0, "o2", "red">>],
                        [name |-> "raw", type |-> "", value |-> <<0, "o3", "json">>],
                        [name |-> "part", type |-> "fragment", value |-> <<0, "f1", "body">>] >>
      [] r = "W"  -> << [name |-> "prefs", type |-> "object", value |-> <<0, "o4", "dark">>] >>
      [] OTHER    -> << >>

\* eachRelationship: name, kind and members of each relationship, in schema
\* order.
Relationships(r) ==
    CASE r = "A"  -> << [name |-> "comments", kind |-> "hasMany", members |-> <<"C1", "C2">>] >>
      [] r = "C1" -> << [name |-> "author", kind |-> "belongsTo", members |-> <<"U">>],
                        [name |-> "post", kind |-> "belongsTo", members |-> <<"A">>] >>
      [] r = "C2" -> << [name |-> "author", kind |-> "belongsTo", members |-> <<"U">>] >>
      [] r = "U"  -> << [name |-> "boss", kind |-> "belongsTo", members |-> <<"U">>] >>
      [] r = "P"  -> << [name |-> "owner", kind |-> "belongsTo", members |-> <<"N">>],
                        [name |-> "parent", kind |-> "belongsTo", members |-> << >>],
                        [name |-> "files", kind |-> "hasMany", members |-> <<"N">>] >>
      [] r = "T"  -> << [name |-> "items", kind |-> "hasMany", members |-> <<"I1", "I2">>] >>
      [] r = "I1" -> << [name |-> "owner", kind |-> "belongsTo", members |-> <<"W">>] >>
      [] r = "I2" -> << [name |-> "editor", kind |-> "belongsTo", members |-> <<"W">>] >>
      [] r = "W"  -> << [name |-> "mentor", kind |-> "belongsTo", members |-> <<"M">>] >>
      [] OTHER    -> << >>

\* The sets of attribute types whose transform fails.
BrokenTransformSets == {{}, {"date"}}

\* ------------------------------------------------------------ references
\* A relationship value refers to a source record or to a clone, or it is
\* empty, or it is an ordered collection of such references.
Src(r) == <<"src", r, 0>>
Clone(k) == <<"clone", "", k>>
NoRecord == <<"none", "", 0>>
Many(refs) == <<"many", "", refs>>

RECURSIVE SrcSeq(_)
SrcSeq(ms) == IF ms = << >> THEN << >> ELSE <<Src(Head(ms))>> \o SrcSeq(Tail(ms))

\* this.get(name) of a relationship: the related record, or the ordered
\* collection of related records.
RelValue(rel) ==
    IF rel.kind = "belongsTo"
    THEN IF rel.members = << >> THEN NoRecord ELSE Src(rel.members[1])
    ELSE Many(SrcSeq(rel.members))

\* --------------------------------------------------------------- options
PRIMITIVE_TYPES == {"string", "number", "boolean"}

\* An object without keys.
EmptyObject == [k \in {} |-> Nil]

DEFAULT_OPTIONS ==
    [ignoreAttributes |-> {}, otherAttributes |-> {}, copyByReference |-> {},
     overwrite |-> EmptyObject, relationships |-> EmptyObject, createAsModel |-> TRUE,
     objectDefinition |-> Nil]

\* copyableOptions: null on the mixin.
copyableOptions(r) == EmptyObject

\* A value given in options.overwrite.
Literal(x) == <<0, "lit", x>>

\* The option objects a caller passes, by name; "undefined" is a call
\* without options. relationships[name] names the option object handed to
\* the records related through name.
OptionValue(o) ==
    CASE o = "empty" -> EmptyObject
      [] o = "byRef" -> [copyByReference |-> {"comments", "author", "prefs"}]
      [] o = "plain" -> [createAsModel |-> FALSE]
      [] o = "shallowRel" -> [deep |-> FALSE]
      [] o = "deepRel" -> [deep |-> TRUE]
      [] o = "itemOpts" -> [relationships |-> [owner |-> "shallowRel"]]
      [] o = "mixed" -> [relationships |-> [items |-> "itemOpts"]]
      [] o = "plainDeepRel" -> [createAsModel |-> FALSE, copyByReference |-> {"tags"},
                                relationships |-> [items |-> "deepRel"]]
      [] o = "noWriter" -> [ignoreAttributes |-> {"owner", "editor"}]
      [] o = "ignore" -> [ignoreAttributes |-> {"tags", "part"},
                          otherAttributes |-> {"tags"},
                          relationships |-> [items |-> "noWriter"]]
      [] o = "overwrite" -> [overwrite |-> [title |-> Literal("t"), tags |-> Literal("g"),
                                            items |-> Literal("i"), note |-> Literal("n")],
                             ignoreAttributes |-> {"title", "items"},
                             copyByReference |-> {"tags"},
                             otherAttributes |-> {"note"},
                             relationships |-> [items |-> "deepRel"]]
      [] OTHER       -> EmptyObject

\* The calls made: copy(deep, options) on record r, as <<r, deep, options>>.
CallInputs ==
    {<<"A", TRUE, "empty">>, <<"A", FALSE, "empty">>, <<"A", TRUE, "byRef">>,
     <<"C2", TRUE, "plain">>, <<"P", TRUE, "empty">>}

\* The calls made with options that select, skip, force or share fields,
\* and a call on an item, whose graph is a part of the thread's.
OptionInputs ==
    {<<"T", TRUE, "mixed">>, <<"T", FALSE, "plainDeepRel">>, <<"T", TRUE, "ignore">>,
     <<"T", TRUE, "overwrite">>, <<"I2", TRUE, "empty">>}

\* Ember.assign: the keys of b override those of a.
assign(a, b) == [k \in (DOMAIN a) \cup (DOMAIN b) |-> IF k \in DOMAIN b THEN b[k] ELSE a[k]]

isUndefined(m, name) == name \notin DOMAIN m

\* options of one COPY_TASK run.
EffectiveOptions(r, o) == assign(assign(DEFAULT_OPTIONS, copyableOptions(r)), OptionValue(o))

\* options.relationships[name], the options handed to the related records.
RelOptions(options, name) ==
    IF name \in DOMAIN options.relationships THEN options.relationships[name] ELSE "undefined"

\* relOptions && relOptions.deep: no fallback to the ambient flag.
DeepRelNoDefault(relOptions, deep) ==
    IF relOptions # "undefined" /\ "deep" \in DOMAIN OptionValue(relOptions)
    THEN OptionValue(relOptions).deep ELSE FALSE

\* The ambient flag, whatever relOptions.deep says.
DeepRelAmbient(relOptions, deep) == deep

\* relOptions && typeof relOptions.deep === 'boolean' ? relOptions.deep : deep
DeepRel(relOptions, deep) ==
    IF relOptions # "undefined" /\ "deep" \in DOMAIN OptionValue(relOptions)
    THEN OptionValue(relOptions).deep ELSE deep

\* let x = v in F(x), with v evaluated once.
Let(v, F(_)) == CHOOSE y \in {F(x) : x \in {v}} : TRUE

\* ----------------------------------------------------------------- state
VARIABLES
    calls,            \* the copy() calls made so far, in order
    meta,             \* meta[c]: the _meta object of call c's runner
    frames,           \* frames[c]: the COPY_TASK instances performed for call c
    clones,           \* clones[c]: the objects created by COPY_TASK for call c
    store,            \* the clones <<c, k>> that are loaded in the store
    unloaded,         \* the clones <<c, k>> store.unloadRecord was called on
    brokenTransforms  \* the attribute types whose transform throws

vars == <<calls, meta, frames, clones, store, unloaded, brokenTransforms>>

NoErr == [kind |-> "none", at |-> "", wrapped |-> FALSE]

\* The error thrown by a transform of record r.
TransformError(r) == [kind |-> "transform", at |-> r, wrapped |-> FALSE]

\* The rejection of the promise of a relationship of record r.
ReadError(r) == [kind |-> "read", at |-> r, wrapped |-> FALSE]

\* The TypeError of store.unloadRecord on an object that is not a model.
UnloadError(r) == [kind |-> "unload", at |-> r, wrapped |-> FALSE]

\* new Error(e): a new error whose message is the text of e.
NewError(e) == [e EXCEPT !.wrapped = TRUE]

\* copies[guid], 0 when the record has no entry.
RECURSIVE Lookup(_, _)
Lookup(copies, r) ==
    IF copies = << >> THEN 0
    ELSE IF Head(copies)[1] = r THEN Head(copies)[2] ELSE Lookup(Tail(copies), r)

\* ------------------------------------------------------- attribute pass
\* Copyable.detect(value): the value has its own copy().
CopyableDetect(v) == v[2] = "f1"

\* transform.serialize, then transform.deserialize: the wire form keeps the
\* data only, and deserialize builds a new instance from it.
serialize(v) == v[3]
deserialize(w, cid, name) == <<cid, name, w>>

\* this.get(name)
Get(r, name) ==
    LET as == SelectSeq(Attributes(r), LAMBDA a : a.name = name)
        rs == SelectSeq(Relationships(r), LAMBDA x : x.name = name)
    IN  IF as # << >> THEN as[1].value
        ELSE IF rs # << >> THEN RelValue(rs[1])
        ELSE <<0, "", name>>

\* The attribute goes through the transform (or its own copy()).
NeedsNewInstance(a, options) ==
    /\ a.name \notin options.ignoreAttributes
    /\ isUndefined(options.overwrite, a.name)
    /\ a.type # ""
    /\ a.name \notin options.copyByReference
    /\ a.type \notin PRIMITIVE_TYPES

\* dAttrs[name] = this.get(name) for every attribute.
CopiedAttributeAsIs(a, options, cid) ==
    IF ~isUndefined(options.overwrite, a.name) THEN options.overwrite[a.name] ELSE a.value

\* The value of dAttrs[a.name] for the clone cid.
CopiedAttribute(a, options, cid) ==
    IF ~isUndefined(options.overwrite, a.name) THEN options.overwrite[a.name]
    ELSE IF NeedsNewInstance(a, options)
         THEN IF CopyableDetect(a.value) THEN <<cid, a.value[2], a.value[3]>>
              ELSE deserialize(serialize(a.value), cid, a.name)
         ELSE a.value

\* The eachAttribute callback over all attributes of r: whether a transform
\* throws, the types resolved, and dAttrs.
AttributePass(r, options, cid, broken) ==
    LET as == Attributes(r)
        idx == DOMAIN as
        viaTransform == {i \in idx : NeedsNewInstance(as[i], options) /\ ~CopyableDetect(as[i].value)}
        kept == {i \in idx : as[i].name \notin options.ignoreAttributes}
    IN  [throws |-> \E i \in viaTransform : as[i].type \in broken,
         resolved |-> {as[i].type : i \in viaTransform},
         dAttrs |-> [n \in {as[i].name : i \in kept} |->
                       CopiedAttribute(as[CHOOSE i \in kept : as[i].name = n], options, cid)]]

\* this.getProperties(otherAttributes)
getProperties(r, names) == [n \in names |-> Get(r, n)]

\* ----------------------------------------------------- relationship pass
\* eachRelationship with the ignored names too.
DiscoveredAll(r, options) == Relationships(r)

\* eachRelationship without the ignored names.
Discovered(r, options) ==
    SelectSeq(Relationships(r), LAMBDA rel : rel.name \notin options.ignoreAttributes)

\* copyByReference.includes(name): the shallow flag is not looked at.
ReferenceLinkByNameOnly(deep, options, name) == name \in options.copyByReference

\* !deep || copyByReference.includes(name)
ReferenceLink(deep, options, name) == ~deep \/ name \in options.copyByReference

\* catch (e) {}: the error of the link is swallowed and nothing is assigned.
LinkFallbackNone(rAttrs, r, name) == rAttrs

\* catch (e) { rAttrs[name] = this.get(name); }
LinkFallback(rAttrs, r, name) == assign(rAttrs, [n \in {name} |-> Get(r, name)])

\* The for loop over the relationships from index i up to the next yield:
\* an overwritten name takes the overwrite, a reference link adds the
\* source's members to the clone's relationship (or, when the clone has no
\* relationship objects, assigns the value read from the source), and a
\* deep relationship suspends the task on this.get(name).
RECURSIVE RelLoop(_, _, _, _, _, _, _)
RelLoop(r, deep, options, isModel, i, rAttrs, linked) ==
    Let(Discovered(r, options), LAMBDA rels :
        IF i > Len(rels)
        THEN [pc |-> "apply", i |-> i, rAttrs |-> rAttrs, linked |-> linked]
        ELSE Let(rels[i], LAMBDA rel :
                 IF ~isUndefined(options.overwrite, rel.name)
                 THEN RelLoop(r, deep, options, isModel, i + 1,
                              assign(rAttrs, [n \in {rel.name} |-> options.overwrite[rel.name]]), linked)
                 ELSE IF ReferenceLink(deep, options, rel.name)
                 THEN IF isModel
                      THEN RelLoop(r, deep, options, isModel, i + 1, rAttrs,
                                   assign(linked, [n \in {rel.name} |-> RelValue(rel)]))
                      ELSE RelLoop(r, deep, options, isModel, i + 1,
                                   LinkFallback(rAttrs, r, rel.name), linked)
                 ELSE [pc |-> "readRel", i |-> i, rAttrs |-> rAttrs, linked |-> linked]))

\* The heap a task works on: the tasks, the clones, the store and the _meta
\* of the task's session.
Heap(c) == [frames |-> frames[c], clones |-> clones[c], store |-> store, meta |-> meta[c]]

\* The merge without the overwrite values.
MergeAttrsNoOverwrite(other, dAttrs, rAttrs, overwrite) == assign(assign(other, dAttrs), rAttrs)

\* assign(this.getProperties(otherAttributes), dAttrs, rAttrs, overwrite)
MergeAttrs(other, dAttrs, rAttrs, overwrite) ==
    assign(assign(assign(other, dAttrs), rAttrs), overwrite)

\* Run task fid from relationship i to its next yield; at the end of the
\* loop merge the attributes, expose them on _options, set them on the clone
\* and return the clone.
Advance(H, fid, i, rAttrs) ==
    Let(H.frames[fid], LAMBDA f :
    Let(EffectiveOptions(f.rec, f.opts), LAMBDA options :
    Let(H.clones[f.model], LAMBDA cl :
    Let(RelLoop(f.rec, f.deep, options, cl.isModel, i, rAttrs, cl.linked), LAMBDA loop :
    Let(MergeAttrs(getProperties(f.rec, options.otherAttributes), f.dAttrs,
                   loop.rAttrs, options.overwrite), LAMBDA attrs :
        IF loop.pc = "apply"
        THEN [H EXCEPT !.frames[fid] = [f EXCEPT !.pc = "done", !.i = loop.i, !.rAttrs = loop.rAttrs,
                                                  !.kids = << >>, !.result = Clone(f.model),
                                                  !.attrs = IF f.opts # "undefined" THEN attrs ELSE EmptyObject],
                       !.clones[f.model] = [cl EXCEPT !.linked = loop.linked,
                                                      !.props = assign(@, attrs),
                                                      !.populated = TRUE]]
        ELSE [H EXCEPT !.frames[fid] = [f EXCEPT !.pc = "readRel", !.i = loop.i, !.rAttrs = loop.rAttrs,
                                                  !.kids = << >>],
                       !.clones[f.model].linked = loop.linked])))))

\* The memo is never hit.
MemoCheckMiss(copies, r) == 0

\* if (copies[guid]) return copies[guid]
MemoCheck(copies, r) == Lookup(copies, r)

\* task.perform(deep, _options, _meta) of COPY_TASK on record r: the task
\* runs at once up to its first yield. A memo hit returns the registered
\* clone; otherwise the clone is created and registered before the
\* attribute pass and the relationship pass.
Perform(H, sess, r, deep, opts, parent) ==
    Let(EffectiveOptions(r, opts), LAMBDA options :
    Let(MemoCheck(H.meta.copies, r), LAMBDA hit :
    LET fid == Len(H.frames) + 1
        base == [sess |-> sess, rec |-> r, deep |-> deep, opts |-> opts, parent |-> parent,
                 pc |-> "start", i |-> 0, model |-> 0, dAttrs |-> EmptyObject,
                 rAttrs |-> EmptyObject, kids |-> << >>, result |-> NoRecord, err |-> NoErr,
                 attrs |-> EmptyObject, memoHit |-> FALSE]
        cid == Len(H.clones) + 1
    IN  IF hit # 0
        THEN [H EXCEPT !.frames = Append(@, [base EXCEPT !.pc = "done", !.result = Clone(hit),
                                                          !.memoHit = TRUE])]
        ELSE Let(AttributePass(r, options, cid, brokenTransforms), LAMBDA ap :
             Let([H EXCEPT
                          !.clones = Append(@, [src |-> r, sess |-> sess,
                                                isModel |-> options.createAsModel,
                                                linked |-> EmptyObject, props |-> EmptyObject,
                                                populated |-> FALSE]),
                          !.store = IF options.createAsModel THEN @ \cup {<<sess, cid>>} ELSE @,
                          !.meta.copies = Append(@, <<r, cid>>),
                          !.meta.transforms = @ \cup ap.resolved,
                          !.frames = Append(@, [base EXCEPT
                                                  !.model = cid,
                                                  !.pc = IF ap.throws THEN "failed" ELSE "start",
                                                  !.err = IF ap.throws THEN TransformError(r) ELSE NoErr,
                                                  !.dAttrs = IF ap.throws THEN EmptyObject ELSE ap.dAttrs])],
                 LAMBDA H1 : IF ap.throws THEN H1 ELSE Advance(H1, fid, 1, EmptyObject)))))

\* A task that has finished, by return, by throw or by cancellation.
Settled == {"done", "failed", "cancelled"}

\* TaskInstance.cancel(): the task stops where it waits, and so does the
\* child task it waits for.
RECURSIVE Cancel(_, _)
RECURSIVE CancelEach(_, _)
Cancel(fs, fid) ==
    IF fid = 0 \/ fs[fid].pc \in Settled THEN fs
    ELSE CancelEach([fs EXCEPT ![fid].pc = "cancelled"], fs[fid].kids)
CancelEach(fs, ids) ==
    IF ids = << >> THEN fs ELSE CancelEach(Cancel(fs, Head(ids)), Tail(ids))

\* The heap becomes the next state.
Commit(c, H) ==
    /\ frames' = [k \in (DOMAIN frames) \cup {c} |-> IF k = c THEN H.frames ELSE frames[k]]
    /\ clones' = [k \in (DOMAIN clones) \cup {c} |-> IF k = c THEN H.clones ELSE clones[k]]
    /\ store' = H.store
    /\ meta' = [k \in (DOMAIN meta) \cup {c} |-> IF k = c THEN H.meta ELSE meta[k]]

\* value.getEach(COPY_TASK).invoke('perform', deepRel, relOptions, _meta),
\* then yield all(...): the members' tasks are performed in collection
\* order, a member without the task yields undefined (kid 0), and the
\* parent task waits for all of them.
RECURSIVE PerformEach(_, _, _, _, _, _, _)
PerformEach(H, sess, members, deep, opts, parent, kids) ==
    IF members = << >>
    THEN Commit(sess, [H EXCEPT !.frames[parent].pc = "awaitAll", !.frames[parent].kids = kids])
    ELSE IF IS_COPYABLE(Head(members))
         THEN \E H1 \in {Perform(H, sess, Head(members), deep, opts, parent)} :
                  PerformEach(H1, sess, Tail(members), deep, opts, parent,
                              Append(kids, Len(H.frames) + 1))
         ELSE PerformEach(H, sess, Tail(members), deep, opts, parent, Append(kids, 0))

\* ---------------------------------------------------------------- actions
Init ==
    /\ calls = << >>
    /\ meta = [c \in {} |-> Nil]
    /\ frames = [c \in {} |-> Nil]
    /\ clones = [c \in {} |-> Nil]
    /\ store = {}
    /\ unloaded = {}
    /\ brokenTransforms \in BrokenTransformSets

\* One _meta kept across the calls: the runner takes the _meta of the
\* runner started before it.
NewMetaShared(c) ==
    IF c - 1 \in DOMAIN meta THEN meta[c - 1] ELSE [copies |-> << >>, transforms |-> {}]

\* let _meta = { copies: {}, transforms: {} } in the runner of call c.
NewMeta(c) == [copies |-> << >>, transforms |-> {}]

\* A task without the drop policy: no instance counts as running.
InFlightNever(r) == FALSE

\* A guard that is never released: an instance of the runner of record r
\* was started.
InFlightEver(r) == \E c \in DOMAIN calls : calls[c].rec = r /\ calls[c].state # "dropped"

\* .drop(): an instance of the runner of record r is running.
InFlight(r) == \E c \in DOMAIN calls : calls[c].rec = r /\ calls[c].state = "running"

\* copy(deep, options) on record r: perform COPY_TASK_RUNNER. While an
\* instance of r's runner is running the new instance is dropped; otherwise
\* the runner starts: it creates _meta, performs COPY_TASK on r and waits.
copy(r, deep, opts) ==
    /\ Len(calls) < MaxCalls
    /\ LET c == Len(calls) + 1
           call == [rec |-> r, deep |-> deep, opts |-> opts, state |-> "running",
                    root |-> 1, result |-> NoRecord, err |-> NoErr]
       IN  IF InFlight(r)
           THEN /\ calls' = Append(calls, [call EXCEPT !.state = "dropped", !.root = 0])
                /\ UNCHANGED <<meta, frames, clones, store>>
           ELSE /\ calls' = Append(calls, call)
                /\ \E H \in {Perform([frames |-> << >>, clones |-> << >>, store |-> store,
                                         meta |-> NewMeta(c)],
                                        c, r, deep, opts, 0)} : Commit(c, H)
    /\ UNCHANGED <<unloaded, brokenTransforms>>

\* relationships[i] of the task f.
CurrentRel(f) == Discovered(f.rec, EffectiveOptions(f.rec, f.opts))[f.i]

\* let value = yield this.get(name): the promise of the relationship
\* settles. On a value the related records are copied: a copyable to-one
\* record by a child task, a to-many collection whose first member is
\* copyable by one child task per member; anything else is kept as it is.
AwaitRelationship(c, fid, ok) ==
    /\ c \in DOMAIN frames
    /\ fid \in DOMAIN frames[c]
    /\ frames[c][fid].pc = "readRel"
    /\ Len(frames[c]) + Len(CurrentRel(frames[c][fid]).members) <= MaxFrames
    /\ \E f \in {frames[c][fid]} :
       \E options \in {EffectiveOptions(f.rec, f.opts)} :
       \E rel \in {CurrentRel(f)} :
       \E value \in {RelValue(rel)} :
       \E relOptions \in {RelOptions(options, rel.name)} :
       \E deepRel \in {DeepRel(relOptions, f.deep)} :
       \E H \in {Heap(c)} :
           IF ~ok
           THEN /\ frames' = [frames EXCEPT ![c][fid].pc = "failed", ![c][fid].err = ReadError(f.rec)]
                /\ UNCHANGED <<meta, clones, store>>
           ELSE IF rel.kind = "belongsTo"
           THEN IF value # NoRecord /\ IS_COPYABLE(rel.members[1])
                THEN \E H1 \in {Perform(H, c, rel.members[1], deepRel, relOptions, fid)} :
                         Commit(c, [H1 EXCEPT !.frames[fid].pc = "awaitOne",
                                              !.frames[fid].kids = <<Len(H.frames) + 1>>])
                ELSE \E H1 \in {Advance(H, fid, f.i + 1, assign(f.rAttrs, [n \in {rel.name} |-> value]))} :
                         Commit(c, H1)
           ELSE IF rel.members # << >> /\ IS_COPYABLE(rel.members[1])
                THEN PerformEach(H, c, rel.members, deepRel, relOptions, fid, << >>)
                ELSE \E H1 \in {Advance(H, fid, f.i + 1, assign(f.rAttrs, [n \in {rel.name} |-> value]))} :
                         Commit(c, H1)
    /\ UNCHANGED <<calls, unloaded, brokenTransforms>>

\* rAttrs[name] = yield value.get(COPY_TASK).perform(...): the child task
\* has returned its clone, or has thrown and the error is thrown here.
AwaitChild(c, fid) ==
    /\ c \in DOMAIN frames
    /\ fid \in DOMAIN frames[c]
    /\ frames[c][fid].pc = "awaitOne"
    /\ \E f \in {frames[c][fid]} :
       \E kid \in {frames[c][f.kids[1]]} :
       \E name \in {CurrentRel(f).name} :
           /\ kid.pc \in {"done", "failed"}
           /\ IF kid.pc = "done"
              THEN \E H \in {Heap(c)} :
                   \E H1 \in {Advance(H, fid, f.i + 1, assign(f.rAttrs, [n \in {name} |-> kid.result]))} :
                       Commit(c, H1)
              ELSE /\ frames' = [frames EXCEPT ![c][fid].pc = "failed", ![c][fid].err = kid.err]
                   /\ UNCHANGED <<meta, clones, store>>
    /\ UNCHANGED <<calls, unloaded, brokenTransforms>>

\* The results of the child tasks, the last task first.
RECURSIVE ResultsReversed(_, _)
ResultsReversed(fs, kids) ==
    IF kids = << >> THEN << >>
    ELSE ResultsReversed(fs, Tail(kids)) \o <<IF Head(kids) = 0 THEN NoRecord ELSE fs[Head(kids)].result>>

\* The results of the child tasks, in the order of the tasks.
RECURSIVE Results(_, _)
Results(fs, kids) ==
    IF kids = << >> THEN << >>
    ELSE <<IF Head(kids) = 0 THEN NoRecord ELSE fs[Head(kids)].result>> \o Results(fs, Tail(kids))

\* all(...) taken as settled once every child task has finished, whether it
\* returned or threw.
AllSettled(fs, kids) == \A k \in kids : fs[k].pc \in {"done", "failed"}

\* all(...) taken as resolved once one child task has returned.
AnyResolved(fs, kids) == kids = {} \/ \E k \in kids : fs[k].pc = "done"

\* all(...) resolves once every child task has returned.
AllResolved(fs, kids) == \A k \in kids : fs[k].pc = "done"

\* rAttrs[name] = yield all(...): all child tasks have returned, or one of
\* them has thrown: then the others are cancelled and the error is thrown
\* here.
AwaitAll(c, fid) ==
    /\ c \in DOMAIN frames
    /\ fid \in DOMAIN frames[c]
    /\ frames[c][fid].pc = "awaitAll"
    /\ \E f \in {frames[c][fid]} :
       \E kids \in {{f.kids[i] : i \in DOMAIN f.kids} \ {0}} :
       \E name \in {CurrentRel(f).name} :
           \/ /\ AllResolved(frames[c], kids)
              /\ \E H \in {Heap(c)} :
                 \E H1 \in {Advance(H, fid, f.i + 1,
                                     assign(f.rAttrs, [n \in {name} |-> Many(Results(frames[c], f.kids))]))} :
                     Commit(c, H1)
           \/ /\ \E k \in kids :
                    /\ frames[c][k].pc = "failed"
                    /\ frames' = [frames EXCEPT ![c] = [CancelEach(frames[c], f.kids) EXCEPT
                                                          ![fid].pc = "failed",
                                                          ![fid].err = frames[c][k].err]]
              /\ UNCHANGED <<meta, clones, store>>
    /\ UNCHANGED <<calls, unloaded, brokenTransforms>>

\* copiesKeys.forEach((key) => store.unloadRecord(_meta.copies[key])): the
\* clones are unloaded in the order of their registration; unloadRecord of
\* an object that is not a model throws and ends the loop.
RECURSIVE UnloadEach(_, _, _, _)
UnloadEach(c, copies, st, ul) ==
    IF copies = << >> THEN [store |-> st, unloaded |-> ul, err |-> NoErr]
    ELSE LET cid == Head(copies)[2]
         IN  IF clones[c][cid].isModel
             THEN UnloadEach(c, Tail(copies), st \ {<<c, cid>>}, ul \cup {<<c, cid>>})
             ELSE [store |-> st, unloaded |-> ul \cup {<<c, cid>>},
                   err |-> UnloadError(clones[c][cid].src)]

\* The task instances of a runner that has settled: once every one of them
\* has finished nothing refers to them any more.
Discard(fs) == IF \A fid \in DOMAIN fs : fs[fid].pc \in Settled THEN << >> ELSE fs

\* finally without the test of isSuccessful.
RollsBackAlways(isSuccessful) == TRUE

\* if (!isSuccessful) in the finally block.
RollsBack(isSuccessful) == ~isSuccessful

\* The runner resumes from yield this.get(COPY_TASK).perform(...): on a
\* clone it returns the clone; on an error the catch block throws
\* new Error(e) and the finally block unloads the registered clones, and an
\* error thrown there replaces the one being thrown.
COPY_TASK_RUNNER(c) ==
    /\ c \in DOMAIN calls
    /\ calls[c].state = "running"
    /\ \E root \in {frames[c][calls[c].root]} :
       \E isSuccessful \in {root.pc = "done"} :
       \E ul \in {IF RollsBack(isSuccessful)
                   THEN UnloadEach(c, meta[c].copies, store, unloaded)
                   ELSE [store |-> store, unloaded |-> unloaded, err |-> NoErr]} :
           /\ root.pc \in {"done", "failed"}
           /\ IF isSuccessful /\ ul.err = NoErr
              THEN calls' = [calls EXCEPT ![c].state = "resolved", ![c].result = root.result]
              ELSE calls' = [calls EXCEPT ![c].state = "rejected",
                                          ![c].err = IF ul.err = NoErr THEN NewError(root.err)
                                                     ELSE ul.err]
           /\ store' = ul.store
           /\ unloaded' = ul.unloaded
           /\ frames' = [frames EXCEPT ![c] = Discard(@)]
    /\ UNCHANGED <<meta, clones, brokenTransforms>>

Next ==
    \/ \E in \in CallInputs : copy(in[1], in[2], in[3])
    \/ \E c \in DOMAIN frames : \E fid \in DOMAIN frames[c], ok \in BOOLEAN : AwaitRelationship(c, fid, ok)
    \/ \E c \in DOMAIN frames : \E fid \in DOMAIN frames[c] : AwaitChild(c, fid)
    \/ \E c \in DOMAIN frames : \E fid \in DOMAIN frames[c] : AwaitAll(c, fid)
    \/ \E c \in DOMAIN calls : COPY_TASK_RUNNER(c)

Spec == Init /\ [][Next]_vars

\* The runs in which no step fails: every transform works and every promise
\* of a relationship resolves. A task that can go on does go on: the run
\* loop resumes a task whose promise or child task has settled.
InitOk == Init /\ brokenTransforms = {}

Progress ==
    \/ \E c \in DOMAIN frames : \E fid \in DOMAIN frames[c] : AwaitRelationship(c, fid, TRUE)
    \/ \E c \in DOMAIN frames : \E fid \in DOMAIN frames[c] : AwaitChild(c, fid)
    \/ \E c \in DOMAIN frames : \E fid \in DOMAIN frames[c] : AwaitAll(c, fid)
    \/ \E c \in DOMAIN calls : COPY_TASK_RUNNER(c)

NextOk ==
    \/ \E in \in CallInputs : copy(in[1], in[2], in[3])
    \/ Progress

SpecOk == InitOk /\ [][NextOk]_vars /\ WF_vars(Progress)

\* The runs of the calls with options, every transform working.
NextOptions ==
    \/ \E in \in OptionInputs : copy(in[1], in[2], in[3])
    \/ \E c \in DOMAIN frames : \E fid \in DOMAIN frames[c], ok \in BOOLEAN : AwaitRelationship(c, fid, ok)
    \/ \E c \in DOMAIN frames : \E fid \in DOMAIN frames[c] : AwaitChild(c, fid)
    \/ \E c \in DOMAIN frames : \E fid \in DOMAIN frames[c] : AwaitAll(c, fid)
    \/ \E c \in DOMAIN calls : COPY_TASK_RUNNER(c)

SpecOptions == InitOk /\ [][NextOptions]_vars

\* ---------------------------------------------------------------- claims
\* The calls made so far.
Calls == DOMAIN calls

\* The calls whose runner has started.
Sessions == DOMAIN clones

\* The value of relationship name on a clone: the property set on it, else
\* the members linked into its relationship.
CloneRel(cl, name) ==
    IF name \in DOMAIN cl.props THEN cl.props[name]
    ELSE IF name \in DOMAIN cl.linked THEN cl.linked[name]
    ELSE <<"unset", "", 0>>

\* The records related to record r.
Related(r) == UNION {{rel.members[i] : i \in DOMAIN rel.members} :
                     rel \in {Relationships(r)[j] : j \in DOMAIN Relationships(r)}}

\* The records reachable from record r (r included).
RECURSIVE ReachFrom(_)
ReachFrom(S) ==
    LET T == S \cup UNION {Related(r) : r \in S}
    IN  IF T = S THEN S ELSE ReachFrom(T)
\* The reachable set of every record, computed once.
ReachOf == [r \in Records |-> ReachFrom({r})]
Reach(r) == ReachOf[r]

\* The clone registered for source record r in session c.
CloneOf(c, r) == Clone(Lookup(meta[c].copies, r))

RECURSIVE ClonesOf(_, _)
ClonesOf(c, ms) == IF ms = << >> THEN << >> ELSE <<CloneOf(c, Head(ms))>> \o ClonesOf(c, Tail(ms))

\* The image of a relationship of a source record under the session's
\* source-to-clone map.
Mirror(c, rel) ==
    IF rel.kind = "belongsTo"
    THEN IF rel.members = << >> THEN NoRecord ELSE CloneOf(c, rel.members[1])
    ELSE Many(ClonesOf(c, rel.members))

\* C1 (Single-flight): at most one top-level copy of a record is running at
\* any time, and a call made while one is running is dropped and has no
\* clones.
C1_SingleFlight ==
    /\ \A c, d \in Calls :
          (calls[c].rec = calls[d].rec /\ calls[c].state = "running" /\ calls[d].state = "running")
              => c = d
    /\ \A c \in Calls : calls[c].state = "dropped" => c \notin Sessions

\* A second copy() on a record was dropped while the first is still running
\* with clones in the store.
C1_Witness ==
    \E c, d \in Calls :
        /\ c < d
        /\ calls[c].rec = calls[d].rec
        /\ calls[c].state = "running"
        /\ calls[d].state = "dropped"
        /\ \E k \in DOMAIN clones[c] : <<c, k>> \in store

\* C2 (Rollback completeness): when a top-level copy has failed, none of
\* the clones registered in its session is left in the store and the call
\* fails with the error of the copy step.
C2_RollbackComplete ==
    \A c \in Calls :
        calls[c].state = "rejected" =>
            /\ \A i \in DOMAIN meta[c].copies : <<c, meta[c].copies[i][2]>> \notin store
            /\ calls[c].err.kind \in {"transform", "read"}

\* Call c is a deep copy that is running.
DeepRunning(c) == IF c \in Calls THEN calls[c].state = "running" /\ calls[c].deep ELSE FALSE

\* Call c has returned its clone.
Resolved(c) == IF c \in Calls THEN calls[c].state = "resolved" ELSE FALSE

\* C3 (Cycle termination): a deep copy whose steps do not fail is eventually
\* resolved, on the graphs with a cycle of length 2 and with a
\* self-reference too, and a session never holds more than one clone of a
\* record reachable from the root, and none of any other record.
C3_CycleTermination ==
    /\ \A c \in 1..MaxCalls : [](DeepRunning(c) => <>Resolved(c))
    /\ [](\A c \in Sessions : \A r \in Records :
             Cardinality({k \in DOMAIN clones[c] : clones[c][k].src = r})
                 <= IF r \in Reach(calls[c].rec) THEN 1 ELSE 0)

\* A deep copy of the post, whose graph has the cycle A -> C1 -> A and the
\* self-reference U -> U, is resolved with a clone of each reachable record.
C3_Witness ==
    \E c \in Calls :
        /\ calls[c].rec = "A" /\ calls[c].deep /\ calls[c].opts = "empty"
        /\ calls[c].state = "resolved"
        /\ "A" \in Reach("C1") /\ "U" \in Related("U")
        /\ Len(clones[c]) = Cardinality(Reach("A"))

\* The pairs <<members, value>> of the to-one relationships of clone cl
\* that hold a clone.
ToOneClones(cl) ==
    {<<rel.members, CloneRel(cl, rel.name)>> :
        rel \in {x \in {Relationships(cl.src)[i] : i \in DOMAIN Relationships(cl.src)} :
                    x.kind = "belongsTo" /\ CloneRel(cl, x.name)[1] = "clone"}}

\* C4 (Identity sharing): in one session a source record has at most one
\* clone, every finished visit of a record returns the clone registered for
\* it, and two to-one relationships to the same source record hold the same
\* clone.
C4_IdentitySharing ==
    \A c \in Sessions :
        /\ \A j, k \in DOMAIN clones[c] : clones[c][j].src = clones[c][k].src => j = k
        /\ \A fid \in DOMAIN frames[c] :
              frames[c][fid].pc = "done" =>
                  /\ frames[c][fid].result[1] = "clone"
                  /\ clones[c][frames[c][fid].result[3]].src = frames[c][fid].rec
        /\ LET held == UNION {ToOneClones(clones[c][j]) : j \in DOMAIN clones[c]}
           IN  \A p, q \in held : p[1] = q[1] => p[2] = q[2]

\* The user was visited from both comments, one visit being a memo hit, and
\* both comment clones hold the same clone of the user.
C4_Witness ==
    \E c \in Sessions :
        /\ \E f, g \in DOMAIN frames[c] :
              /\ f # g
              /\ frames[c][f].rec = "U" /\ frames[c][g].rec = "U"
              /\ frames[c][f].parent # frames[c][g].parent
              /\ frames[c][f].pc = "done" /\ frames[c][g].pc = "done"
              /\ frames[c][g].memoHit
              /\ frames[c][frames[c][g].parent].rec = "C1"
        /\ \E j, k \in DOMAIN clones[c] :
              /\ clones[c][j].src = "C1" /\ clones[c][k].src = "C2"
              /\ clones[c][j].populated /\ clones[c][k].populated
              /\ CloneRel(clones[c][j], "author")[1] = "clone"
              /\ CloneRel(clones[c][j], "author") = CloneRel(clones[c][k], "author")

\* C5 (Shallow copy): a copy with deep = false and options {} performs no
\* COPY_TASK but the root's and creates one clone, and once resolved every
\* relationship of the clone holds the root's related source records.
C5_ShallowCopy ==
    \A c \in Sessions :
        (~calls[c].deep /\ calls[c].opts = "empty") =>
            /\ Len(clones[c]) = 1
            /\ Len(frames[c]) <= 1
            /\ calls[c].state = "resolved" =>
                  /\ calls[c].result = Clone(1)
                  /\ \A i \in DOMAIN Relationships(calls[c].rec) :
                        CloneRel(clones[c][1], Relationships(calls[c].rec)[i].name)
                            = RelValue(Relationships(calls[c].rec)[i])

\* A shallow copy of the post is resolved and its clone holds the two source
\* comments.
C5_Witness ==
    \E c \in Calls :
        /\ calls[c].rec = "A" /\ ~calls[c].deep /\ calls[c].opts = "empty"
        /\ calls[c].state = "resolved"
        /\ CloneRel(clones[c][1], "comments") = Many(<<Src("C1"), Src("C2")>>)

\* C6 (Deep copy mirrors the source graph): after a resolved deep copy with
\* options {} of a root whose reachable records are all copyable, every
\* reachable record has a clone and every relationship of that clone holds
\* the clones of the source's related records.
C6_DeepMirror ==
    \A c \in Calls :
        (/\ calls[c].state = "resolved" /\ calls[c].deep /\ calls[c].opts = "empty"
         /\ \A r \in Reach(calls[c].rec) : IS_COPYABLE(r)) =>
            \A r \in Reach(calls[c].rec) :
                /\ Lookup(meta[c].copies, r) # 0
                /\ \A i \in DOMAIN Relationships(r) :
                      CloneRel(clones[c][Lookup(meta[c].copies, r)], Relationships(r)[i].name)
                          = Mirror(c, Relationships(r)[i])

\* A deep copy of the post is resolved: the post's clone holds the clones of
\* both comments and the first comment's clone points back to it.
C6_Witness ==
    \E c \in Calls :
        /\ calls[c].rec = "A" /\ calls[c].deep /\ calls[c].opts = "empty"
        /\ calls[c].state = "resolved"
        /\ CloneRel(clones[c][1], "comments") = Many(<<CloneOf(c, "C1"), CloneOf(c, "C2")>>)
        /\ CloneRel(clones[c][Lookup(meta[c].copies, "C1")], "post") = calls[c].result

\* C7 (To-many ordering): a task that has copied a to-many relationship of
\* copyable members in deep-copy mode holds a collection of the length of
\* the source collection whose member i is the clone of source member i.
C7_ToManyOrder ==
    \A c \in Sessions : \A fid \in DOMAIN frames[c] :
        LET f == frames[c][fid]
            options == EffectiveOptions(f.rec, f.opts)
        IN  (f.pc = "done" /\ ~f.memoHit /\ f.deep) =>
                \A i \in DOMAIN Relationships(f.rec) :
                    LET rel == Relationships(f.rec)[i]
                    IN  (/\ rel.kind = "hasMany"
                         /\ rel.members # << >>
                         /\ \A m \in DOMAIN rel.members : IS_COPYABLE(rel.members[m])
                         /\ rel.name \notin options.ignoreAttributes \cup options.copyByReference
                         /\ rel.name \notin DOMAIN options.overwrite) =>
                            /\ f.rAttrs[rel.name][1] = "many"
                            /\ Len(f.rAttrs[rel.name][3]) = Len(rel.members)
                            /\ \A m \in DOMAIN rel.members :
                                  /\ f.rAttrs[rel.name][3][m][1] = "clone"
                                  /\ clones[c][f.rAttrs[rel.name][3][m][3]].src = rel.members[m]

\* The post's task has finished a deep copy of its two comments.
C7_Witness ==
    \E c \in Sessions : \E fid \in DOMAIN frames[c] :
        /\ frames[c][fid].rec = "A" /\ frames[c][fid].deep /\ frames[c][fid].pc = "done"
        /\ ~frames[c][fid].memoHit /\ frames[c][fid].opts = "empty"
        /\ Len(frames[c][fid].rAttrs["comments"][3]) = 2

\* C8 (Rollback failures do not mask the original error): a failed
\* top-level copy is rejected with the error of the copy step, never with
\* the error of an unload.
C8_OriginalErrorKept ==
    \A c \in Calls : calls[c].state = "rejected" => calls[c].err.kind # "unload"

\* C9 (No partial result): once a task of a session has failed the call is
\* never resolved and never gets a clone; the task waiting for a failed task
\* never goes on, and a rejected call has no result.
C9_NoPartialResult ==
    /\ [][\A c \in Calls :
            (calls[c].state = "running" /\ \E fid \in DOMAIN frames[c] : frames[c][fid].pc = "failed")
                => (calls'[c].state \in {"running", "rejected"} /\ calls'[c].result = NoRecord)]_vars
    /\ [](\A c \in Sessions : \A fid \in DOMAIN frames[c] :
             (frames[c][fid].pc = "failed" /\ frames[c][fid].parent # 0) =>
                 frames[c][frames[c][fid].parent].pc \in {"awaitOne", "awaitAll", "failed", "cancelled"})
    /\ [](\A c \in Calls : calls[c].state = "rejected" => calls[c].result = NoRecord)

\* A deep copy of the post was rejected with the error of a step two levels
\* below the root.
C9_Witness ==
    \E c \in Calls :
        /\ calls[c].rec = "A" /\ calls[c].state = "rejected"
        /\ calls[c].err.kind = "read" /\ calls[c].err.at = "U"
        /\ calls[c].result = NoRecord

\* C10 (A dropped duplicate call has no effect): a copy() made on a record
\* while a top-level copy of it is running is dropped, the step changes
\* nothing but the list of calls and leaves the earlier calls as they are, a
\* dropped call stays dropped, and it has no session, task or clone.
C10_DroppedCallHasNoEffect ==
    /\ [][\A r \in Records :
            (/\ \E c \in Calls : calls[c].rec = r /\ calls[c].state = "running"
             /\ Len(calls') = Len(calls) + 1
             /\ calls'[Len(calls')].rec = r) =>
                /\ calls'[Len(calls')].state = "dropped"
                /\ SubSeq(calls', 1, Len(calls)) = calls
                /\ UNCHANGED <<meta, frames, clones, store, unloaded>>]_vars
    /\ [][\A c \in Calls : calls[c].state = "dropped" => calls'[c].state = "dropped"]_vars
    /\ [](\A c \in Calls : calls[c].state = "dropped" =>
             c \notin DOMAIN meta /\ c \notin DOMAIN frames /\ c \notin DOMAIN clones)

\* The copy that was running when the duplicate was dropped has been
\* resolved, and the duplicate is still dropped.
C10_Witness ==
    \E c, d \in Calls :
        /\ c < d
        /\ calls[c].rec = calls[d].rec
        /\ calls[c].state = "resolved" /\ calls[c].deep
        /\ calls[d].state = "dropped"

\* The options task f runs with.
OptionsOf(f) == EffectiveOptions(f.rec, f.opts)

\* Property name of clone cl was set to value v.
Holds(cl, name, v) == IF name \in DOMAIN cl.props THEN cl.props[name] = v ELSE FALSE

\* C11 (Overwrite precedence): the clone made by a task holds, under every
\* name with a value in the task's options.overwrite, that value, and so
\* does the clone a top-level copy returns, whatever the other options say
\* about the name.
C11_OverwritePrecedence ==
    /\ \A c \in Sessions : \A fid \in DOMAIN frames[c] :
          (frames[c][fid].pc = "done" /\ ~frames[c][fid].memoHit) =>
              \A name \in DOMAIN OptionsOf(frames[c][fid]).overwrite :
                  Holds(clones[c][frames[c][fid].model], name,
                        OptionsOf(frames[c][fid]).overwrite[name])
    /\ \A c \in Calls :
          calls[c].state = "resolved" =>
              \A name \in DOMAIN EffectiveOptions(calls[c].rec, calls[c].opts).overwrite :
                  Holds(clones[c][calls[c].result[3]], name,
                        EffectiveOptions(calls[c].rec, calls[c].opts).overwrite[name])

\* A deep copy of the thread is resolved with overwrite values for an
\* ignored attribute, an attribute copied by reference, an ignored
\* relationship with a deep override and another property: the clone holds
\* the four values and no item was copied.
C11_Witness ==
    \E c \in Calls :
        /\ calls[c].state = "resolved" /\ calls[c].deep /\ calls[c].opts = "overwrite"
        /\ Holds(clones[c][1], "title", Literal("t"))
        /\ Holds(clones[c][1], "tags", Literal("g"))
        /\ Holds(clones[c][1], "items", Literal("i"))
        /\ Holds(clones[c][1], "note", Literal("n"))
        /\ "title" \in OptionValue("overwrite").ignoreAttributes
        /\ "tags" \in OptionValue("overwrite").copyByReference
        /\ Len(clones[c]) = 1

\* The names of the relationships of record r that lead to record t.
PathsTo(r, t) ==
    {Relationships(r)[i].name : i \in {j \in DOMAIN Relationships(r) :
                                          \E m \in DOMAIN Relationships(r)[j].members :
                                              Relationships(r)[j].members[m] = t}}

\* C12 (Ignore): the clone made by a task has no linked members under a
\* name of the task's ignoreAttributes and holds a property under such a
\* name only when the name is in otherAttributes or overwrite too, and
\* every child task copies a record that a relationship outside its
\* parent's ignoreAttributes leads to.
C12_Ignore ==
    \A c \in Sessions : \A fid \in DOMAIN frames[c] :
        /\ (frames[c][fid].pc = "done" /\ ~frames[c][fid].memoHit) =>
              \A name \in OptionsOf(frames[c][fid]).ignoreAttributes :
                  /\ name \notin DOMAIN clones[c][frames[c][fid].model].linked
                  /\ name \in DOMAIN clones[c][frames[c][fid].model].props =>
                        name \in OptionsOf(frames[c][fid]).otherAttributes
                                   \cup DOMAIN OptionsOf(frames[c][fid]).overwrite
        /\ frames[c][fid].parent # 0 =>
              PathsTo(frames[c][frames[c][fid].parent].rec, frames[c][fid].rec)
                  \ OptionsOf(frames[c][frames[c][fid].parent]).ignoreAttributes # {}

\* A deep copy of the thread that ignores an attribute, ignores another
\* one that is in otherAttributes too, and ignores both relationships of
\* the items to the writer: the items were copied and the writer was not.
C12_Witness ==
    \E c \in Sessions : \E fid \in DOMAIN frames[c] :
        /\ frames[c][fid].rec = "T" /\ frames[c][fid].opts = "ignore" /\ frames[c][fid].deep
        /\ frames[c][fid].pc = "done"
        /\ "part" \notin DOMAIN clones[c][1].props
        /\ "tags" \in DOMAIN clones[c][1].props
        /\ {clones[c][k].src : k \in DOMAIN clones[c]} = {"T", "I1", "I2"}
        /\ \A k \in DOMAIN clones[c] :
              clones[c][k].populated /\ {"owner", "editor"} \cap DOMAIN clones[c][k].props = {}
        /\ Reach("T") = {"T", "I1", "I2", "W", "M"}

\* The attributes of record r.
AttributesOf(r) == {Attributes(r)[i] : i \in DOMAIN Attributes(r)}

\* The attribute value is an object, not a primitive: it has an identity.
IsObject(v) == v[2] # ""

\* C13 (Attribute independence), as claimed: the clone made by a task holds
\* under no attribute name the very object the source holds.
C13_AttributeIndependence ==
    \A c \in Sessions : \A fid \in DOMAIN frames[c] :
        (frames[c][fid].pc = "done" /\ ~frames[c][fid].memoHit) =>
            \A a \in AttributesOf(frames[c][fid].rec) :
                IsObject(a.value) => ~Holds(clones[c][frames[c][fid].model], a.name, a.value)

\* C13 amended: for an attribute with a declared type that is not string,
\* number or boolean, and whose name is not in ignoreAttributes, overwrite
\* or copyByReference, the clone made by a task holds a new object of its
\* own with the data of the source's object.
C13_TypedAttributeIndependence ==
    \A c \in Sessions : \A fid \in DOMAIN frames[c] :
        (frames[c][fid].pc = "done" /\ ~frames[c][fid].memoHit) =>
            \A a \in AttributesOf(frames[c][fid].rec) :
                (/\ IsObject(a.value)
                 /\ a.type # "" /\ a.type \notin PRIMITIVE_TYPES
                 /\ a.name \notin OptionsOf(frames[c][fid]).ignoreAttributes
                 /\ a.name \notin OptionsOf(frames[c][fid]).copyByReference
                 /\ a.name \notin DOMAIN OptionsOf(frames[c][fid]).overwrite) =>
                    /\ a.name \in DOMAIN clones[c][frames[c][fid].model].props
                    /\ clones[c][frames[c][fid].model].props[a.name] # a.value
                    /\ clones[c][frames[c][fid].model].props[a.name][1] = frames[c][fid].model
                    /\ clones[c][frames[c][fid].model].props[a.name][3] = a.value[3]

\* The thread was copied: its clone holds a new object for the attribute
\* of type object and for the fragment, and the source's own object for
\* the attribute without a type.
C13_Witness ==
    \E c \in Sessions : \E fid \in DOMAIN frames[c] :
        /\ frames[c][fid].rec = "T" /\ frames[c][fid].opts = "mixed"
        /\ frames[c][fid].pc = "done"
        /\ Holds(clones[c][1], "tags", <<1, "tags", "red">>)
        /\ Holds(clones[c][1], "part", <<1, "f1", "body">>)
        /\ Holds(clones[c][1], "raw", <<0, "o3", "json">>)

\* C14 (Fresh session per call): the memo of a session has exactly one
\* entry per clone the session created, every entry and every memo hit
\* leads to a clone created in the session for that record, the root task
\* is never a memo hit, and the clone a call returns is a clone of the
\* call's record created in the call's session.
C14_FreshSession ==
    \A c \in Sessions :
        /\ Len(clones[c]) >= 1
        /\ Len(meta[c].copies) = Len(clones[c])
        /\ \A i \in DOMAIN meta[c].copies :
              IF meta[c].copies[i][2] \in DOMAIN clones[c]
              THEN /\ clones[c][meta[c].copies[i][2]].src = meta[c].copies[i][1]
                   /\ clones[c][meta[c].copies[i][2]].sess = c
              ELSE FALSE
        /\ \A fid \in DOMAIN frames[c] :
              frames[c][fid].memoHit =>
                  /\ frames[c][fid].parent # 0
                  /\ frames[c][fid].result[3] \in DOMAIN clones[c]
        /\ calls[c].state = "resolved" =>
              IF calls[c].result[3] \in DOMAIN clones[c]
              THEN clones[c][calls[c].result[3]].src = calls[c].rec
              ELSE FALSE
        /\ \A k \in DOMAIN clones[c] : clones[c][k].sess = c

\* The thread was copied deep twice in sequence with the same options, and
\* each call returned the clone of the thread of its own session, with its
\* own clones of the items and the writer, all of them in the store.
C14_Witness ==
    \E c, d \in Calls :
        /\ c < d
        /\ calls[c].rec = "T" /\ calls[d].rec = "T"
        /\ calls[c].opts = "mixed" /\ calls[d].opts = "mixed"
        /\ calls[c].state = "resolved" /\ calls[d].state = "resolved"
        /\ {"T", "I1", "I2", "W"} \subseteq {clones[c][k].src : k \in DOMAIN clones[c]}
        /\ {"T", "I1", "I2", "W"} \subseteq {clones[d][k].src : k \in DOMAIN clones[d]}
        /\ \A k \in DOMAIN clones[c] : <<c, k>> \in store
        /\ \A k \in DOMAIN clones[d] : <<d, k>> \in store

\* childDeep as the claim states it: relationships[name].deep when the
\* options give one, the ambient flag otherwise.
ChildDeep(options, name, deep) ==
    IF name \in DOMAIN options.relationships
    THEN IF "deep" \in DOMAIN OptionValue(options.relationships[name])
         THEN OptionValue(options.relationships[name]).deep
         ELSE deep
    ELSE deep

\* The relationships of task f that its options neither ignore nor
\* overwrite.
PlainRels(f) ==
    {rel \in {Relationships(f.rec)[i] : i \in DOMAIN Relationships(f.rec)} :
        /\ rel.name \notin OptionsOf(f).ignoreAttributes
        /\ rel.name \notin DOMAIN OptionsOf(f).overwrite}

C16_LinkFallback ==
    /\ \A c \in Sessions : \A fid \in DOMAIN frames[c] :
          (/\ frames[c][fid].pc = "done" /\ ~frames[c][fid].memoHit
           /\ ~clones[c][frames[c][fid].model].isModel) =>
              \A rel \in PlainRels(frames[c][fid]) :
                  (~frames[c][fid].deep \/ rel.name \in OptionsOf(frames[c][fid]).copyByReference) =>
                      /\ Holds(clones[c][frames[c][fid].model], rel.name, RelValue(rel))
                      /\ rel.name \notin DOMAIN clones[c][frames[c][fid].model].linked
    /\ \A c \in Sessions :
          (~calls[c].deep /\ ~clones[c][1].isModel) =>
              /\ calls[c].state \in {"running", "resolved"}
              /\ calls[c].state = "running" => frames[c][1].pc = "done"
              /\ \A k \in DOMAIN clones[c] : <<c, k>> \notin unloaded
              /\ clones[c][1].populated

\* A shallow copy of the thread to a plain object is resolved: the clone
\* holds the source's items, assigned as a property.
C16_Witness ==
    \E c \in Calls :
        /\ calls[c].rec = "T" /\ ~calls[c].deep /\ calls[c].opts = "plainDeepRel"
        /\ calls[c].state = "resolved"
        /\ ~clones[c][1].isModel
        /\ Holds(clones[c][1], "items", Many(<<Src("I1"), Src("I2")>>))
        /\ clones[c][1].linked = EmptyObject

\* The root task of session c has returned, or the call has.
RootDone(c) ==
    \/ calls[c].state = "resolved"
    \/ calls[c].state = "running" /\ frames[c] # << >> /\ frames[c][1].pc = "done"

\* C17 (Populated on success): once the root task of a session has
\* returned, every task of the session has returned and every clone of the
\* session has had its properties set.
C17_PopulatedOnSuccess ==
    \A c \in Sessions :
        RootDone(c) =>
            /\ \A fid \in DOMAIN frames[c] : frames[c][fid].pc = "done"
            /\ \A k \in DOMAIN clones[c] : clones[c][k].populated
            /\ \A i \in DOMAIN meta[c].copies : clones[c][meta[c].copies[i][2]].populated

\* The root task of a deep copy of the thread has returned; the writer was
\* handed out by a memo hit on the way, and every clone has its
\* properties.
C17_Witness ==
    \E c \in Sessions :
        /\ calls[c].rec = "T" /\ calls[c].opts = "mixed" /\ calls[c].state = "running"
        /\ frames[c] # << >> /\ frames[c][1].pc = "done"
        /\ \E f \in DOMAIN frames[c] : frames[c][f].memoHit /\ frames[c][f].rec = "W"
        /\ Len(clones[c]) >= 4
        /\ \A k \in DOMAIN clones[c] : clones[c][k].populated

\* A memo hit has handed out a clone whose properties are not set yet.
C17_UnpopulatedHandedOut ==
    \E c \in Sessions : \E f \in DOMAIN frames[c] :
        /\ frames[c][f].memoHit /\ frames[c][f].pc = "done"
        /\ ~clones[c][frames[c][f].result[3]].populated

\* C18 (Guard release): a copy() on a record that has a settled top-level
\* copy and no running one is accepted: its runner starts with a session
\* of its own.
C18_GuardRelease ==
    [][\A r \in Records :
          (/\ Len(calls') = Len(calls) + 1
           /\ calls'[Len(calls')].rec = r
           /\ \E c \in Calls : calls[c].rec = r /\ calls[c].state \in {"resolved", "rejected"}
           /\ \A c \in Calls : calls[c].rec = r => calls[c].state # "running") =>
              /\ calls'[Len(calls')].state = "running"
              /\ Len(calls') \in DOMAIN clones'
              /\ clones'[Len(calls')] # << >>]_vars

\* A copy of a record was rejected and rolled back, and the next copy()
\* on the same record was accepted and has created its clone.
C18_Witness ==
    \E c, d \in Calls :
        /\ c < d
        /\ calls[c].rec = calls[d].rec
        /\ calls[c].state = "rejected"
        /\ \E k \in DOMAIN clones[c] : <<c, k>> \in unloaded
        /\ calls[d].state # "dropped"
        /\ d \in Sessions
        /\ clones[d] # << >>

\* The clones registered in the session of a call that was rejected.
RolledBack ==
    UNION {{<<c, meta[c].copies[i][2]>> : i \in DOMAIN meta[c].copies} :
           c \in {d \in Sessions : calls[d].state = "rejected"}}

\* C19 (Rollback touches only the failed session's clones): unloadRecord
\* was called on nothing but clones registered in the session of a call
\* that was rejected, and every store record created for a call that is
\* running or resolved is still in the store.
C19_RollbackFrame ==
    /\ unloaded \subseteq RolledBack
    /\ \A c \in Sessions :
          calls[c].state \in {"running", "resolved"} =>
              \A k \in DOMAIN clones[c] :
                  /\ <<c, k>> \notin unloaded
                  /\ clones[c][k].isModel => <<c, k>> \in store

\* One call was rejected and its clones were unloaded, while the clones of
\* another call, which is resolved, are all in the store.
C19_Witness ==
    \E c, d \in Sessions :
        /\ c # d
        /\ calls[d].state = "rejected"
        /\ Cardinality({k \in DOMAIN clones[d] : <<d, k>> \in unloaded}) >= 2
        /\ calls[c].state = "resolved"
        /\ Len(clones[c]) >= 2
        /\ \A k \in DOMAIN clones[c] : <<c, k>> \in store

\* A reference held by a clone of session c, with a clone named by the
\* record it is a clone of.
RECURSIVE CanonRefs(_, _)
CanonRef(c, v) ==
    IF v[2] = "lit" THEN <<"lit", v[3], 0>>
    ELSE IF v[1] = "clone" THEN <<"cloneOf", clones[c][v[3]].src, 0>>
    ELSE IF v[1] = "many" THEN <<"many", "", CanonRefs(c, v[3])>>
    ELSE v
CanonRefs(c, vs) ==
    IF vs = << >> THEN << >> ELSE <<CanonRef(c, Head(vs))>> \o CanonRefs(c, Tail(vs))

\* The names of the relationships of record r.
RelNames(r) == {Relationships(r)[i].name : i \in DOMAIN Relationships(r)}

\* The clone graph of session c up to the identity of the clones: for
\* every record that has a clone, what the clone holds under each
\* relationship of the record.
Canon(c) ==
    [r \in {clones[c][k].src : k \in DOMAIN clones[c]} |->
        [name \in RelNames(r) |->
            CanonRef(c, CloneRel(clones[c][Lookup(meta[c].copies, r)], name))]]

\* C20 (Interleaving independence): two resolved top-level copies of the
\* same record with the same deep flag and the same options have the same
\* clone graph up to the identity of the clones.
C20_InterleavingIndependence ==
    \A c, d \in Calls :
        (/\ calls[c].state = "resolved" /\ calls[d].state = "resolved"
         /\ calls[c].rec = calls[d].rec
         /\ calls[c].deep = calls[d].deep
         /\ calls[c].opts = calls[d].opts) =>
            Canon(c) = Canon(d)

====
